---- MODULE Spec2Model ----
(***************************************************************************)
(* Model of end2end-test.py (QLever UI end-to-end tester).                 *)
(*                                                                         *)
(* The tester is one sequential process that drives a browser session.     *)
(* The model follows its program counter; every call into the browser     *)
(* (navigate, find element, read text, close) and the interactive read of  *)
(* done() is an input whose outcome is chosen with \E from the outcomes    *)
(* the driver can produce.  An exception no handler catches ends the       *)
(* process with a traceback and status 1 (pc = "crashed").                 *)
(*                                                                         *)
(* Texts are sequences of one-character strings, so that Hint.parse is     *)
(* computed the way the code computes it.                                  *)
(***************************************************************************)
EXTENDS Integers, Sequences, FiniteSets, TLC

(***************************************************************************)
(* Bounds of the model.                                                    *)
(***************************************************************************)
\* num_retries is drawn from -1 .. MaxRetries
MaxRetries == 2
\* the catalogue holds at most MaxCases test cases (both kinds together)
MaxCases == 2
\* the browser shows at most MaxShown hint elements / result lines
MaxShown == 2
\* an encoded hint has at most MaxSegments '/'-separated segments
MaxSegments == 2

(***************************************************************************)
(* Program constants.                                                      *)
(***************************************************************************)
\* get_hints: for i in range(10)
MaxPolls == 10

(***************************************************************************)
(* Characters and texts.                                                   *)
(***************************************************************************)
Quote == "\""
Upper == {"Q", "P"}
Lower == {"w", "a", "b", "e", "d", "x"}
Digit == {"1", "2"}
\* \w of the regular expression
Word == Upper \cup Lower \cup Digit \cup {"_"}
\* the characters str.strip() removes
Space == {" "}
\* the characters of the class ["@]
Delim == {Quote, "@"}

\* smallest element of a non-empty set of integers
MinOf(S) == CHOOSE x \in S : \A y \in S : x <= y

\* str.split(c): the parts between the occurrences of c, empty parts kept
RECURSIVE SplitChar(_, _)
SplitChar(s, c) ==
    LET at == {k \in 1..Len(s) : s[k] = c}
    IN  IF at = {} THEN <<s>>
        ELSE LET k == MinOf(at)
             IN  <<SubSeq(s, 1, k - 1)>> \o SplitChar(SubSeq(s, k + 1, Len(s)), c)

\* str.strip(): leading and trailing whitespace removed
RECURSIVE Strip(_)
Strip(s) ==
    IF s = <<>> THEN s
    ELSE IF s[1] \in Space THEN Strip(Tail(s))
    ELSE IF s[Len(s)] \in Space THEN Strip(SubSeq(s, 1, Len(s) - 1))
    ELSE s

\* re.split(r'["@]+', s): split at every maximal run of quote / @ characters
RECURSIVE ReSplit(_)
ReSplit(s) ==
    LET at == {k \in 1..Len(s) : s[k] \in Delim}
    IN  IF at = {} THEN <<s>>
        ELSE LET k == MinOf(at)
                 \* first index after the run of delimiters that starts at k
                 m == MinOf({j \in (k + 1)..(Len(s) + 1) :
                                j = Len(s) + 1 \/ s[j] \notin Delim})
             IN  <<SubSeq(s, 1, k - 1)>> \o ReSplit(SubSeq(s, m, Len(s)))

\* the index of the colon that ends the run of word characters starting at p,
\* when  \w+ : [A-Z] \d+  matches s from position p; 0 when it does not
MatchAt(s, p) ==
    IF s[p] \notin Word THEN 0
    ELSE LET c == MinOf({j \in (p + 1)..(Len(s) + 1) :
                            j = Len(s) + 1 \/ s[j] \notin Word})
         IN  IF /\ c + 2 <= Len(s)
                /\ s[c] = ":"
                /\ s[c + 1] \in Upper
                /\ s[c + 2] \in Digit
             THEN c ELSE 0

NoMatch == <<>>

\* re.search(r'(\w+):([A-Z]\d+)', s): the two groups of the leftmost match,
\* or NoMatch (None)
ReSearch(s) ==
    LET starts == {p \in 1..Len(s) : MatchAt(s, p) > 0}
    IN  IF starts = {} THEN NoMatch
        ELSE LET p == MinOf(starts)
                 c == MatchAt(s, p)
                 \* first index after the greedy run of digits
                 e == MinOf({j \in (c + 3)..(Len(s) + 1) :
                                j = Len(s) + 1 \/ s[j] \notin Digit})
             IN  <<SubSeq(s, p, c - 1), SubSeq(s, c + 1, e - 1)>>

\* the elements of one '/'-separated part
Elements(part) == ReSplit(Strip(part))

\* Hint.parse raises on this text: re.search gives None for the first part
\* (AttributeError), or a part has fewer than three elements (IndexError)
ParseError(text) ==
    LET parts == SplitChar(text, "/")
    IN  IF ReSearch(Elements(parts[1])[1]) = NoMatch THEN "AttributeError"
        ELSE IF \E k \in 1..Len(parts) : Len(Elements(parts[k])) < 3 THEN "IndexError"
        ELSE "none"

\* Hint.parse with insert(0, ...) in place of append
Parse_Prepend(text) ==
    LET parts == SplitChar(text, "/")
        g     == ReSearch(Elements(parts[1])[1])
    IN  [database_type |-> g[1],
         database_id   |-> g[2],
         name_language_pairs |->
             [k \in 1..Len(parts) |->
                 <<Elements(parts[Len(parts) + 1 - k])[2],
                   Elements(parts[Len(parts) + 1 - k])[3]>>]]

\* Hint.parse: (database_type, database_id, name_language_pairs); the marker
\* is searched in the first part only, because database_type is set after it
Parse(text) ==
    LET parts == SplitChar(text, "/")
        g     == ReSearch(Elements(parts[1])[1])
    IN  [database_type |-> g[1],
         database_id   |-> g[2],
         name_language_pairs |->
             [k \in 1..Len(parts) |->
                 <<Elements(parts[k])[2], Elements(parts[k])[3]>>]]

\* Hint.__init__: the record built from a text that parses
Hint(text) ==
    LET r == Parse(text)
    IN  [fulltext      |-> text,
         database_type |-> r.database_type,
         database_id   |-> r.database_id,
         name_language_pairs |-> r.name_language_pairs,
         primary_name  |-> r.name_language_pairs[1][1]]


(***************************************************************************)
(* Inputs: the texts the browser can show and the test catalogue.          *)
(***************************************************************************)
\* w:Q1"a"@e
T_Q1 == <<"w", ":", "Q", "1", Quote, "a", Quote, "@", "e">>
\* w:Q2"b"@e/"a"@d
T_Q2 == <<"w", ":", "Q", "2", Quote, "b", Quote, "@", "e", "/",
          Quote, "a", Quote, "@", "d">>
\* ?x : a provisional hint
T_PH == <<"?", "x">>
\* an element without visible text
T_EMPTY == <<>>

\* what one CodeMirror-hint element can show as its text
ShownTexts == {T_Q1, T_Q2, T_PH, T_EMPTY}
\* what one result line can show
ShownLines == {<<"a">>, <<"b">>}

\* the sequences over S of length 0 .. n
SeqsUpTo(S, n) == UNION {[1..k -> S] : k \in 0..n}

\* what find_elements can return for the hint window / the result lines
Enumerations == SeqsUpTo(ShownTexts, MaxShown)
LineLists == SeqsUpTo(ShownLines, MaxShown)

\* what one look at the page finds: no hint window, or a window and its elements
NotPolled == [window |-> FALSE, elems |-> <<>>]
Polled == {NotPolled} \cup {[window |-> TRUE, elems |-> e] : e \in Enumerations}

ID_Q1 == <<"Q", "1">>
ID_Q2 == <<"Q", "2">>
\* entries of output.hints, each the list [id, name] of the catalogue file
E_Q1 == <<ID_Q1, <<"a">>>>
\* an entry whose display name is spelled like an identifier
E_Q2 == <<ID_Q2, ID_Q1>>

\* the example and hint test cases a catalogue is made of
ExampleCases == {[lines |-> l] : l \in {<<<<"a">>>>, <<<<"a">>, <<"b">>>>}}
HintCases == {[hints |-> h] : h \in {<<>>, <<E_Q1>>, <<E_Q2, E_Q1>>}}

(***************************************************************************)
(* Encoded hints: the raw strings Hint.parse is written for.               *)
(***************************************************************************)
Kinds == {<<"w">>, <<"w", "d">>}
Ids   == {<<"Q", "1">>, <<"P", "1", "2">>}
Names == {<<"a">>, <<"a", " ", "b">>}
Langs == {<<"e">>, <<"d", "e">>}
\* a segment written without its @Lang part
NoLanguage == <<>>

\* the (name, language) pairs a segment is written from
SegmentPairs == Names \X (Langs \cup {NoLanguage})
SegmentLists == UNION {[1..n -> SegmentPairs] : n \in 1..MaxSegments}

\* "Name"@Lang, or "Name" for a segment without a language
Segment(pair) ==
    <<Quote>> \o pair[1] \o <<Quote>> \o
    (IF pair[2] = NoLanguage THEN <<>> ELSE <<"@">> \o pair[2])

\* the segments joined with '/', with or without blanks around it
RECURSIVE Join(_, _)
Join(segs, spaced) ==
    IF Len(segs) = 1 THEN Segment(segs[1])
    ELSE Segment(segs[1]) \o (IF spaced THEN <<" ", "/", " ">> ELSE <<"/">>)
            \o Join(Tail(segs), spaced)

\* kind:ID"Name"@Lang/"Name_2"@Lang_2/...
Encode(x) == x.kind \o <<":">> \o x.id \o Join(x.segs, x.spaced)

\* what a raw string is written from, and the raw strings themselves
Encodable == [kind : Kinds, id : Ids, segs : SegmentLists, spaced : BOOLEAN]
Encoded == {[from |-> x, text |-> Encode(x)] : x \in Encodable}

\* what init_test_cases can find at test_case_path: a JSON map, no file, a file
\* that is no JSON, a JSON document that is no map (it has no method get)
TestCaseFiles == {"map", "missing", "invalid", "list"}

\* InitTestCases where a document that is no map fills the first list
InitTestCases_Partial(file, data_hints, data_examples) ==
    IF file = "map" THEN <<data_hints, data_examples>>
    ELSE IF file = "list" THEN <<data_hints, <<>>>>
    ELSE <<<<>>, <<>>>>

\* init_test_cases: (test_cases_hints, test_cases_examples) after the call;
\* open, json.load or the first data.get raises and the bare except leaves
\* both lists as __init__ set them, or both are read from the map (a key
\* that is absent reads as the empty list)
InitTestCases(file, data_hints, data_examples) ==
    IF file = "map" THEN <<data_hints, data_examples>>
    ELSE <<<<>>, <<>>>>

(***************************************************************************)
(* State.                                                                  *)
(***************************************************************************)
VARIABLES
    num_retries,          \* self.num_retries
    test_case_file,       \* what open / json.load find at test_case_path
    test_cases_examples,  \* self.test_cases_examples
    test_cases_hints,     \* self.test_cases_hints
    pc,                   \* position of the process
    ret,                  \* where init_page returns to
    after,                \* what follows done(): 1 = sys.exit(1), 0 = end of main
    kind,                 \* "example" or "hint": the loop of test() that runs
    tc,                   \* index of the current test case in its list
    attempt,              \* i of init_page
    i,                    \* i of the comparison loop
    polls,                \* completed iterations of the loop of get_hints
    seen,                 \* what the last iteration of get_hints found on the page
    unprocessed_hints,    \* what get_hints returned
    hints,                \* the decoded Hint objects
    lines,                \* the result lines read in test_examples
    hints_found,
    hints_not_found,
    driver,               \* "open" or "closed"
    exit_status,          \* -1 while the process runs
    \* history, for the properties
    navs,                 \* driver.get calls of the current init_page call
    failed,               \* failed attempts of the current init_page call
    fatal,                \* init_page gave up
    results,              \* position results of the current test case
    reports,              \* the test cases reported so far, as <<kind, index>>
    status,               \* reported outcome of the current test case
    failures,             \* reported number of failed positions
    stage,                \* last step of the current test case
    crashAt,              \* pc at which an uncaught exception was raised
    closes                \* driver.close() calls

catalogue == <<num_retries, test_case_file, test_cases_examples, test_cases_hints>>
control   == <<pc, ret, after, kind, tc>>
loader    == <<attempt, navs, failed, fatal>>
hintvars  == <<polls, seen, unprocessed_hints, hints, hints_found, hints_not_found>>
verify    == <<i, lines, results, reports, status, failures, stage>>
session   == <<driver, exit_status, crashAt, closes>>
vars == <<catalogue, control, loader, hintvars, verify, session>>

\* an exception nothing catches: traceback, status 1, the browser is left open
Crash ==
    /\ pc' = "crashed"
    /\ crashAt' = pc
    /\ exit_status' = 1
    /\ UNCHANGED <<driver, closes>>

Init ==
    /\ num_retries \in -1..MaxRetries
    /\ test_case_file \in TestCaseFiles
    /\ \E data_hints \in SeqsUpTo(HintCases, MaxCases),
          data_examples \in SeqsUpTo(ExampleCases, MaxCases) :
          /\ Len(data_examples) + Len(data_hints) <= MaxCases
          /\ test_cases_hints =
                InitTestCases(test_case_file, data_hints, data_examples)[1]
          /\ test_cases_examples =
                InitTestCases(test_case_file, data_hints, data_examples)[2]
    /\ pc = "test_examples"
    /\ ret = "none"
    /\ after = 0
    /\ kind = "example"
    /\ tc = 0
    /\ attempt = 0
    /\ i = 0
    /\ polls = 0
    /\ seen = NotPolled
    /\ unprocessed_hints = <<>>
    /\ hints = <<>>
    /\ lines = <<>>
    /\ hints_found = <<>>
    /\ hints_not_found = <<>>
    /\ driver = "open"
    /\ exit_status = -1
    /\ navs = 0
    /\ failed = 0
    /\ fatal = FALSE
    /\ results = <<>>
    /\ reports = <<>>
    /\ status = "none"
    /\ failures = 0
    /\ stage = "idle"
    /\ crashAt = "none"
    /\ closes = 0


(***************************************************************************)
(* Helpers of the operations.                                              *)
(***************************************************************************)
\* bool() of what find_element returned: a WebElement defines neither
\* __bool__ nor __len__, so "if not element" never holds
Truthy(element) == TRUE

\* RangeExhausted for a loop that tests its bound after the body
RangeExhausted_AfterBody(a) == a >= num_retries /\ a >= 1

\* the end of "for i in range(self.num_retries)" in init_page, before
\* iteration a (counted from 0): at once when num_retries <= 0
RangeExhausted(a) == a >= num_retries

\* IsLastAttempt with the bound off by one: not (i < num_retries)
IsLastAttempt_OffByOne(a) == ~(a < num_retries)

\* the test of init_page's handler that ends the run: not (i < num_retries - 1)
IsLastAttempt(a) == ~(a < num_retries - 1)

\* "hints[i].database_id in expected_hints[i]": equality with some element of
\* the entry's list
HintMatches(hint, entry) == \E k \in 1..Len(entry) : entry[k] = hint.database_id

\* the loop "for hint in hints: if hint.text[0] != '?': return hints":
\* the first element that ends the loop, 0 when it runs to its end
FirstDeciding(elems) ==
    LET at == {k \in 1..Len(elems) : elems[k] = <<>> \/ elems[k][1] /= "?"}
    IN  IF at = {} THEN 0 ELSE MinOf(at)

\* PollsExhausted with one iteration more
PollsExhausted_OneMore(p) == p > MaxPolls

\* the end of "for i in range(10)" in get_hints, after p iterations
PollsExhausted(p) == p >= MaxPolls

\* BreaksOnMismatch with the break left out
BreaksOnMismatch_NoBreak == FALSE

\* the break of test_examples after a differing line
BreaksOnMismatch == TRUE

\* HintStatus that reports a failure only when more than one hint is in the list
HintStatus_MoreThanOne(not_found) ==
    IF Len(not_found) > 1 THEN "Failed" ELSE "Passed"

\* "if hints_not_found:" after the comparison loop of test_hints
HintStatus(not_found) ==
    IF not_found /= <<>> THEN "Failed" ELSE "Passed"

\* SwallowsCloseError without the handler around driver.close()
SwallowsCloseError_NoHandler == FALSE

\* "except Exception: pass" around driver.close() in done()
SwallowsCloseError == TRUE

\* the log lines that report the current test case: its outcome and, for a
\* hint test case, the number of failed positions
Report(st, nf) ==
    /\ reports' = Append(reports, <<kind, tc>>)
    /\ status' = st
    /\ failures' = nf
    /\ stage' = "report"

\* CallInitPage with the call left out: the step after it runs at once
CallInitPage_Skipped(r) ==
    /\ pc' = r
    /\ ret' = r
    /\ attempt' = 0
    /\ navs' = 0
    /\ failed' = 0
    /\ UNCHANGED fatal

\* the call of init_page
CallInitPage(r) ==
    /\ pc' = "init_page"
    /\ ret' = r
    /\ attempt' = 0
    /\ navs' = 0
    /\ failed' = 0
    /\ UNCHANGED fatal

(***************************************************************************)
(* test / test_examples                                                    *)
(***************************************************************************)
\* loop head of test_examples; after the loop, test() goes on to test_hints
ExamplesLoop ==
    /\ pc = "test_examples"
    /\ IF tc < Len(test_cases_examples)
       THEN /\ tc' = tc + 1
            /\ CallInitPage("ex_button")
            /\ stage' = "load"
            /\ UNCHANGED <<after, kind>>
       ELSE /\ pc' = "test_hints"
            /\ kind' = "hint"
            /\ tc' = 0
            /\ UNCHANGED <<ret, after, loader, stage>>
    \* the outcome of the test case before is history
    /\ i' = 0
    /\ lines' = <<>>
    /\ results' = <<>>
    /\ status' = "none"
    /\ failures' = 0
    /\ UNCHANGED <<catalogue, hintvars, session, reports>>

\* find the examples button and click it
ExButton ==
    /\ pc = "ex_button"
    /\ \E found \in BOOLEAN :
          IF ~found
          THEN /\ Crash
               /\ UNCHANGED <<reports, status, failures, stage>>
          ELSE IF ~Truthy("examples_button")
          THEN /\ Report("Skipped", 0)
               /\ pc' = "test_examples"
               /\ UNCHANGED session
          ELSE /\ pc' = "ex_dropdown"
               /\ stage' = "stimulate"
               /\ UNCHANGED <<reports, status, failures, session>>
    \* the frame of init_page is gone
    /\ attempt' = 0
    /\ navs' = 0
    /\ failed' = 0
    /\ UNCHANGED <<catalogue, ret, after, kind, tc, fatal, hintvars, i, lines, results>>

\* find the dropdown menu; go on only when it is displayed
ExDropdown ==
    /\ pc = "ex_dropdown"
    /\ \E menu \in {"missing", "hidden", "shown"} :
          IF menu = "missing"
          THEN /\ Crash
               /\ UNCHANGED <<reports, status, failures, stage>>
          ELSE IF ~Truthy("dropdown_menu") \/ menu = "hidden"
          THEN /\ Report("Skipped", 0)
               /\ pc' = "test_examples"
               /\ UNCHANGED session
          ELSE /\ pc' = "ex_example"
               /\ UNCHANGED <<reports, status, failures, stage, session>>
    /\ UNCHANGED <<catalogue, ret, after, kind, tc, loader, hintvars, i, lines, results>>

\* find the example entry in the dropdown and click it
ExExample ==
    /\ pc = "ex_example"
    /\ \E found \in BOOLEAN :
          IF ~found
          THEN /\ Crash
               /\ UNCHANGED <<reports, status, failures, stage>>
          ELSE IF ~Truthy("example")
          THEN /\ Report("Skipped", 0)
               /\ pc' = "test_examples"
               /\ UNCHANGED session
          ELSE /\ pc' = "ex_text"
               /\ UNCHANGED <<reports, status, failures, stage, session>>
    /\ UNCHANGED <<catalogue, ret, after, kind, tc, loader, hintvars, i, lines, results>>

\* find the result text and read its lines
ExText ==
    /\ pc = "ex_text"
    /\ \E found \in BOOLEAN :
          IF ~found
          THEN /\ Crash
               /\ UNCHANGED <<lines, stage>>
          ELSE /\ lines' \in LineLists
               /\ pc' = "ex_compare"
               /\ stage' = "collect"
               /\ UNCHANGED session
    /\ i' = 0
    /\ UNCHANGED <<catalogue, ret, after, kind, tc, loader, hintvars, results, reports,
                   status, failures>>

\* one iteration of the comparison loop of test_examples, or its else clause
ExCompare ==
    /\ pc = "ex_compare"
    /\ LET expected_output == test_cases_examples[tc].lines
       IN  IF i >= Len(expected_output)
           THEN /\ Report("Passed", 0)
                /\ pc' = "test_examples"
                /\ UNCHANGED <<i, lines, results, session>>
           ELSE IF i + 1 > Len(lines)
           THEN /\ Crash
                /\ UNCHANGED <<i, results, reports, status, failures, stage, lines>>
           ELSE IF lines[i + 1] /= expected_output[i + 1]
           THEN LET res == Append(results, [index |-> i, matched |-> FALSE])
                IN  /\ IF BreaksOnMismatch
                       THEN /\ Report("Failed", 1)
                            /\ pc' = "test_examples"
                            /\ UNCHANGED i
                       ELSE /\ i' = i + 1
                            /\ stage' = "compare"
                            /\ UNCHANGED <<pc, reports, status, failures>>
                    /\ results' = res
                    /\ UNCHANGED <<lines, session>>
           ELSE /\ results' = Append(results, [index |-> i, matched |-> TRUE])
                /\ i' = i + 1
                /\ stage' = "compare"
                /\ UNCHANGED <<pc, reports, status, failures, session, lines>>
    /\ UNCHANGED <<catalogue, ret, after, kind, tc, loader, hintvars>>


(***************************************************************************)
(* init_page                                                               *)
(***************************************************************************)
\* one iteration of "for i in range(self.num_retries)": driver.get and the
\* wait for the element "query"; the loop over an empty range returns at once
InitPage ==
    /\ pc = "init_page"
    /\ IF RangeExhausted(attempt)
       THEN /\ pc' = ret
            /\ stage' = "loaded"
            /\ UNCHANGED <<after, loader>>
       ELSE \E outcome \in {"loaded", "get_error", "timeout"} :
               /\ navs' = navs + 1
               /\ IF outcome = "loaded"
                  THEN /\ pc' = ret
                       /\ stage' = "loaded"
                       /\ UNCHANGED <<after, attempt, failed, fatal>>
                  ELSE /\ failed' = failed + 1
                       /\ IF IsLastAttempt(attempt)
                          THEN /\ pc' = "done"
                               /\ after' = 1
                               /\ fatal' = TRUE
                               /\ UNCHANGED attempt
                          ELSE /\ attempt' = attempt + 1
                               /\ UNCHANGED <<pc, after, fatal>>
                       /\ UNCHANGED stage
    /\ UNCHANGED <<catalogue, ret, kind, tc, hintvars, i, lines, results, reports,
                   status, failures, session>>

(***************************************************************************)
(* test_hints, send_to_textfield, get_hints                                *)
(***************************************************************************)
\* loop head of test_hints; after the loop test() returns and main calls done()
HintsLoop ==
    /\ pc = "test_hints"
    /\ IF tc < Len(test_cases_hints)
       THEN /\ tc' = tc + 1
            /\ CallInitPage("send_to_textfield")
            /\ stage' = "load"
            /\ UNCHANGED after
       ELSE /\ pc' = "done"
            /\ after' = 0
            /\ UNCHANGED <<ret, tc, loader, stage>>
    \* the outcome of the test case before is history
    /\ i' = 0
    /\ unprocessed_hints' = <<>>
    /\ hints' = <<>>
    /\ hints_found' = <<>>
    /\ hints_not_found' = <<>>
    /\ UNCHANGED <<kind, lines, polls, seen>>
    /\ results' = <<>>
    /\ status' = "none"
    /\ failures' = 0
    /\ UNCHANGED <<catalogue, session, reports>>

\* find the text field and type the input of the test case
SendToTextfield ==
    /\ pc = "send_to_textfield"
    /\ \E found \in BOOLEAN :
          IF ~found
          THEN /\ Crash
               /\ UNCHANGED stage
          ELSE /\ pc' = "get_hints"
               /\ stage' = "stimulate"
               /\ UNCHANGED session
    \* the frame of init_page is gone
    /\ attempt' = 0
    /\ navs' = 0
    /\ failed' = 0
    /\ UNCHANGED <<catalogue, ret, after, kind, tc, fatal, hintvars, i, lines, results,
                   reports, status, failures>>

\* one iteration of the loop of get_hints: sleep, look for the hint window,
\* scan its elements; after the last iteration without a return, return [].
\* The loop counter is local to get_hints: it is gone once get_hints is left.
GetHints ==
    /\ pc = "get_hints"
    /\ \E found \in Polled :
          LET k == IF found.window THEN FirstDeciding(found.elems) ELSE 0
          IN  /\ seen' = found
              /\ IF k = 0
                 THEN IF PollsExhausted(polls + 1)
                      THEN /\ unprocessed_hints' = <<>>
                           /\ polls' = 0
                           /\ pc' = "decode"
                           /\ stage' = "collect"
                           /\ UNCHANGED session
                      ELSE /\ polls' = polls + 1
                           /\ UNCHANGED <<pc, unprocessed_hints, stage, session>>
                 ELSE IF found.elems[k] = <<>>
                 THEN \* hint.text[0] of an empty text: IndexError
                      /\ Crash
                      /\ polls' = 0
                      /\ UNCHANGED <<unprocessed_hints, stage>>
                 ELSE /\ unprocessed_hints' = found.elems
                      /\ polls' = 0
                      /\ pc' = "decode"
                      /\ stage' = "collect"
                      /\ UNCHANGED session
    /\ UNCHANGED <<catalogue, ret, after, kind, tc, loader, hints, hints_found,
                   hints_not_found, i, lines, results, reports, status, failures>>

\* hints = [Hint(unprocessed_hint.text) for unprocessed_hint in unprocessed_hints]
Decode ==
    /\ pc = "decode"
    /\ IF \E k \in 1..Len(unprocessed_hints) : ParseError(unprocessed_hints[k]) /= "none"
       THEN /\ Crash
            /\ UNCHANGED hints
       ELSE /\ hints' = [k \in 1..Len(unprocessed_hints) |-> Hint(unprocessed_hints[k])]
            /\ pc' = "hint_compare"
            /\ UNCHANGED session
    /\ hints_found' = <<>>
    /\ hints_not_found' = <<>>
    /\ seen' = NotPolled
    /\ UNCHANGED <<catalogue, ret, after, kind, tc, loader, polls, unprocessed_hints, verify>>

\* one iteration of the comparison loop of test_hints, or the report after it
HintCompare ==
    /\ pc = "hint_compare"
    /\ LET expected_hints == test_cases_hints[tc].hints
       IN  IF i >= Len(expected_hints)
           THEN /\ Report(HintStatus(hints_not_found), Len(hints_not_found))
                /\ pc' = "test_hints"
                /\ UNCHANGED <<i, results, hintvars, session>>
           ELSE IF i + 1 > Len(hints)
           THEN /\ Crash
                /\ UNCHANGED <<i, results, reports, status, failures, stage, hintvars>>
           ELSE IF HintMatches(hints[i + 1], expected_hints[i + 1])
           THEN /\ hints_found' = Append(hints_found, hints[i + 1])
                /\ results' = Append(results, [index |-> i, matched |-> TRUE])
                /\ i' = i + 1
                /\ stage' = "compare"
                /\ UNCHANGED <<pc, reports, status, failures, hints_not_found, session, polls, seen, unprocessed_hints, hints>>
           ELSE IF Len(expected_hints[i + 1]) < 2
           THEN \* the warning reads expected_hints[i][0] and [1]
                /\ Crash
                /\ hints_not_found' = Append(hints_not_found, hints[i + 1])
                /\ UNCHANGED <<i, results, reports, status, failures, stage, hints_found, polls, seen, unprocessed_hints, hints>>
           ELSE /\ hints_not_found' = Append(hints_not_found, hints[i + 1])
                /\ results' = Append(results, [index |-> i, matched |-> FALSE])
                /\ i' = i + 1
                /\ stage' = "compare"
                /\ UNCHANGED <<pc, reports, status, failures, hints_found, session, polls, seen, unprocessed_hints, hints>>
    /\ UNCHANGED <<catalogue, ret, after, kind, tc, loader, lines>>

(***************************************************************************)
(* done and the end of the process                                         *)
(***************************************************************************)
\* input(): a line is read, or the input is at its end and EOFError is raised
DoneInput ==
    /\ pc = "done"
    /\ \E read \in {"line", "EOFError"} :
          IF read = "EOFError"
          THEN Crash
          ELSE /\ pc' = "done_close"
               /\ UNCHANGED session
    /\ UNCHANGED <<catalogue, ret, after, kind, tc, loader, hintvars, verify>>

\* driver.close() with its exceptions swallowed; then sys.exit(1) in init_page,
\* or the end of the main program
DoneClose ==
    /\ pc = "done_close"
    /\ \E closed \in BOOLEAN :
          IF ~closed /\ ~SwallowsCloseError
          THEN /\ pc' = "crashed"
               /\ crashAt' = pc
               /\ exit_status' = 1
               /\ UNCHANGED driver
          ELSE /\ driver' = IF closed THEN "closed" ELSE driver
               /\ pc' = "exited"
               /\ exit_status' = after
               /\ UNCHANGED crashAt
    /\ closes' = closes + 1
    /\ UNCHANGED <<catalogue, ret, after, kind, tc, loader, hintvars, verify>>

Next ==
    \/ ExamplesLoop
    \/ ExButton
    \/ ExDropdown
    \/ ExExample
    \/ ExText
    \/ ExCompare
    \/ InitPage
    \/ HintsLoop
    \/ SendToTextfield
    \/ GetHints
    \/ Decode
    \/ HintCompare
    \/ DoneInput
    \/ DoneClose

Spec == Init /\ [][Next]_vars

(***************************************************************************)
(* Hint.parse on its own: test_hints at line 235 with one returned hint,   *)
(* whose text is any of the encoded strings.                               *)
(***************************************************************************)
ParseInit ==
    /\ \E e \in Encoded : unprocessed_hints = <<e.text>>
    /\ num_retries = 1
    /\ test_case_file = "map"
    /\ test_cases_examples = <<>>
    /\ test_cases_hints = <<[hints |-> <<>>]>>
    /\ pc = "decode"
    /\ ret = "send_to_textfield"
    /\ after = 0
    /\ kind = "hint"
    /\ tc = 1
    /\ attempt = 0
    /\ i = 0
    /\ polls = 0
    /\ seen = NotPolled
    /\ hints = <<>>
    /\ lines = <<>>
    /\ hints_found = <<>>
    /\ hints_not_found = <<>>
    /\ driver = "open"
    /\ exit_status = -1
    /\ navs = 0
    /\ failed = 0
    /\ fatal = FALSE
    /\ results = <<>>
    /\ reports = <<>>
    /\ status = "none"
    /\ failures = 0
    /\ stage = "collect"
    /\ crashAt = "none"
    /\ closes = 0

ParseNext == Decode

ParseSpec == ParseInit /\ [][ParseNext]_vars


(***************************************************************************)
(* Properties.                                                             *)
(***************************************************************************)
\* number of test cases started so far, in the order of test(): the example
\* list first, then the hint list
Started == IF kind = "example" THEN tc ELSE Len(test_cases_examples) + tc

\* the k-th test case of the catalogue in that order
CaseAt(k) ==
    IF k <= Len(test_cases_examples) THEN <<"example", k>>
    ELSE <<"hint", k - Len(test_cases_examples)>>

\* the process is inside done() or has ended
Ending == pc \in {"done", "done_close", "exited", "crashed"}

\* the expected positions of the current test case
ExpectedLines == test_cases_examples[tc].lines
ExpectedHints == test_cases_hints[tc].hints

\* C1: when all num_retries >= 1 attempts of one init_page call fail, exactly
\* num_retries navigations were made, init_page calls done() and the process
\* ends with status 1; the test case that asked for the page never gets past
\* its load step and nothing is compared or reported after it.
C1_RetryExhaustionIsFatal ==
    /\ (num_retries >= 1 /\ failed = num_retries) => fatal
    /\ fatal =>
          /\ num_retries >= 1
          /\ failed = num_retries
          /\ navs = num_retries
          /\ Ending
          /\ after = 1
          /\ stage = "load"
          /\ results = <<>>
          /\ status = "none"
          /\ Len(reports) = Started - 1
          /\ (pc = "exited" => exit_status = 1 /\ closes = 1)
          /\ (pc = "crashed" => exit_status = 1 /\ crashAt = "done")
          /\ (exit_status /= -1 => exit_status /= 0)

\* two failed attempts of two, done() has run and the process has ended
C1_Witness ==
    /\ num_retries = 2
    /\ fatal
    /\ navs = 2
    /\ pc = "exited"
    /\ exit_status = 1

\* C2: in a run whose page loads all succeed (no call of init_page gives up),
\* no test case ends the run: in
\* particular the process does not die in the comparison loop of a test case
\* for which the page shows fewer hints or lines than are expected, and when
\* the process ends every test case of the catalogue has been reported.
C2_RunnerNeverAborts ==
    (num_retries >= 1 /\ ~fatal) =>
       /\ (pc = "crashed" => crashAt \notin {"hint_compare", "ex_compare"})
       /\ (pc = "exited" =>
              Len(reports) = Len(test_cases_examples) + Len(test_cases_hints))

\* C3: a hint test case that is over (reported, or ended in its comparison
\* loop) has evaluated all its expected positions, in index order, and the
\* reported number of failures is the number of unmatched positions.
C3_AllPositionsChecked ==
    (num_retries >= 1 /\ kind = "hint" /\ tc >= 1 /\
       (stage = "report" \/ (pc = "crashed" /\ crashAt = "hint_compare"))) =>
       /\ Len(results) = Len(ExpectedHints)
       /\ \A k \in 1..Len(results) : results[k].index = k - 1
       /\ failures = Cardinality({k \in 1..Len(results) : ~results[k].matched})

\* C4: in an example test case the lines are compared in index order, each
\* result says whether the actual line equals the expected one, nothing is
\* evaluated after a differing line, which is reported as a failure at once,
\* and success is reported only after all expected lines have matched.
C4_ExampleStopsAtFirstMismatch ==
    (kind = "example" /\ tc >= 1) =>
       /\ Len(results) <= Len(ExpectedLines)
       /\ \A k \in 1..Len(results) :
             /\ results[k].index = k - 1
             /\ k <= Len(lines)
             /\ results[k].matched <=> (lines[k] = ExpectedLines[k])
             /\ ~results[k].matched =>
                   /\ k = Len(results)
                   /\ stage = "report"
                   /\ status = "Failed"
       /\ (stage = "report" /\ status = "Failed") =>
             (results /= <<>> /\ ~results[Len(results)].matched)
       /\ (stage = "report" /\ status = "Passed") =>
             /\ Len(results) = Len(ExpectedLines)
             /\ \A k \in 1..Len(results) : results[k].matched

\* the first of two expected lines differs and is reported; the second one,
\* which differs too, was never evaluated
C4_Witness ==
    /\ kind = "example"
    /\ tc >= 1
    /\ stage = "report"
    /\ status = "Failed"
    /\ Len(ExpectedLines) = 2
    /\ Len(lines) = 2
    /\ lines[1] /= ExpectedLines[1]
    /\ lines[2] /= ExpectedLines[2]
    /\ Len(results) = 1

\* an element text with a first character other than "?"
NotPlaceholder(text) == text /= <<>> /\ text[1] /= "?"

\* the hint window is there and shows an element that is no placeholder
Ready(found) ==
    /\ found.window
    /\ \E k \in 1..Len(found.elems) : NotPlaceholder(found.elems[k])

\* the hint window is absent, empty, or shows placeholders only
OnlyPlaceholders(found) ==
    \/ ~found.window
    \/ \A k \in 1..Len(found.elems) :
          found.elems[k] /= <<>> /\ found.elems[k][1] = "?"

\* C5: the poll that finds the hint window with an element not starting
\* with "?" makes get_hints return, and what it returns is all that this
\* poll found; a poll that finds no such element returns nothing but the
\* empty list of the last iteration.
C5_ReturnsAtFirstReadyPoll ==
    /\ (num_retries >= 1 /\ Ready(seen)) =>
          (pc = "decode" /\ unprocessed_hints = seen.elems)
    /\ (pc = "decode" /\ ~Ready(seen)) => unprocessed_hints = <<>>

\* C6: get_hints never runs more than MaxPolls iterations; an iteration that
\* finds no hint window, no element or placeholders only goes on to the next
\* one, and the MaxPolls-th such iteration returns the empty list; nothing
\* is raised, and the empty list is returned in no other way.
C6_PollingIsBoundedAndEndsEmpty ==
    /\ [](polls < MaxPolls)
    /\ [][(pc = "get_hints" /\ OnlyPlaceholders(seen')) =>
             IF polls = MaxPolls - 1
             THEN pc' = "decode" /\ unprocessed_hints' = <<>>
             ELSE pc' = "get_hints" /\ polls' = polls + 1]_vars
    /\ [][(pc = "get_hints" /\ pc' = "decode" /\ unprocessed_hints' = <<>>) =>
             (polls = MaxPolls - 1 /\ OnlyPlaceholders(seen'))]_vars

\* get_hints has returned the empty list after a last poll that found one
\* placeholder
C6_Witness ==
    /\ pc = "decode"
    /\ unprocessed_hints = <<>>
    /\ seen.window
    /\ seen.elems = <<T_PH>>

\* C7: a hint text that cannot be decoded does not end the run.
C7_DecodeFailureIsMismatch ==
    (num_retries >= 1 /\ kind = "hint" /\
       \E k \in 1..Len(unprocessed_hints) : ParseError(unprocessed_hints[k]) /= "none")
    => pc /= "crashed"

\* C8: an examples button or a dropdown menu that is not there does not end
\* the run: the test case is reported as skipped and the loop goes on.
C8_MissingElementMeansSkip ==
    /\ num_retries >= 1 =>
          ~(pc = "crashed" /\ crashAt \in {"ex_button", "ex_dropdown"})
    /\ (kind = "example" /\ status = "Skipped") =>
          /\ stage = "report"
          /\ pc = "test_examples"
          /\ results = <<>>
          /\ lines = <<>>

\* the identifiers an entry [id, name] accepts: all its elements but the
\* display name
AcceptableIds(entry) == {entry[j] : j \in (1..Len(entry)) \ {2}}

\* C9: a position is matched exactly when the database_id of the actual hint
\* is one of the acceptable identifiers of the expected entry; the display
\* name of the entry never makes it match.
C9_MatchIsAcceptableIdOnly ==
    (num_retries >= 1 /\ kind = "hint" /\ tc >= 1) =>
       \A k \in 1..Len(results) :
          results[k].matched <=>
             (hints[k].database_id \in AcceptableIds(ExpectedHints[k]))

\* the steps of one test case, in their order
StageStep ==
    \/ stage' = stage
    \/ stage \in {"idle", "report"} /\ stage' = "load"
    \/ stage = "load" /\ stage' = "loaded"
    \/ stage = "loaded" /\ stage' = "stimulate"
    \/ stage = "stimulate" /\ stage' \in {"collect", "report"}
    \/ stage = "collect" /\ stage' \in {"compare", "report"}
    \/ stage = "compare" /\ stage' = "report"

\* C10: the test cases run one at a time in the order of the catalogue (the
\* example list, then the hint list, each in list order); inside a test case
\* the steps go load, stimulate, collect, compare, report; nothing is typed or
\* clicked before init_page has returned, and a test case starts only after
\* the one before it was reported.
C10_ExecutionOrder ==
    /\ [](\A k \in 1..Len(reports) : reports[k] = CaseAt(k))
    /\ [](stage \in {"idle", "report"} => Len(reports) = Started)
    /\ [](stage \notin {"idle", "report"} => Len(reports) = Started - 1)
    /\ [][StageStep]_vars
    /\ [][(stage' = "loaded" /\ stage /= "loaded") =>
             (pc = "init_page" /\ pc' = ret)]_vars
    /\ [][(stage' = "stimulate" /\ stage /= "stimulate") =>
             (pc = ret /\ pc' /= "init_page")]_vars
    /\ [][Started' /= Started =>
             /\ Started' = Started + 1
             /\ stage \in {"idle", "report"}
             /\ stage' = "load"]_vars
    /\ [][reports' /= reports =>
             /\ reports' = Append(reports, <<kind, tc>>)
             /\ stage' = "report"
             /\ stage /= "report"]_vars

\* an example test case and a hint test case have run and been reported
C10_Witness ==
    /\ reports = <<<<"example", 1>>, <<"hint", 1>>>>
    /\ stage = "report"
    /\ status = "Passed"

\* C11: when the catalogue cannot be loaded (no file, no JSON, no map), both
\* lists are empty, no page is navigated to, nothing is compared or
\* reported, test() raises nothing and control reaches done(); the process
\* ends with status 0 once the line done() waits for is read.
C11_FailedLoadIsEmptyRun ==
    test_case_file /= "map" =>
       /\ test_cases_hints = <<>>
       /\ test_cases_examples = <<>>
       /\ navs = 0
       /\ tc = 0
       /\ results = <<>>
       /\ reports = <<>>
       /\ stage = "idle"
       /\ ~fatal
       /\ pc \in {"test_examples", "test_hints", "done", "done_close", "exited",
                  "crashed"}
       /\ (pc = "crashed" => crashAt = "done")
       /\ (pc = "exited" => exit_status = 0 /\ after = 0)

\* a document that is no map was found, and the run has ended with status 0
C11_Witness ==
    /\ test_case_file = "list"
    /\ pc = "exited"
    /\ exit_status = 0
    /\ navs = 0

\* the positions outside the comparison loops at which an exception can be
\* raised: an element that is not there, a text that cannot be decoded, the
\* interactive read of done()
RaisesElsewhere ==
    {"ex_button", "ex_dropdown", "ex_example", "ex_text", "send_to_textfield",
     "get_hints", "decode", "done"}

\* C12: a run that has ended without a fatal page load has ended with status
\* 0, also when a test case showed fewer hints or lines than it expects; a
\* status other than 0 is seen only after init_page gave up.
C12_ExitStatusZeroUnlessFatal ==
    (num_retries >= 1 /\ exit_status /= -1 /\ ~fatal /\ crashAt \notin RaisesElsewhere)
    => exit_status = 0

\* every segment of x is written with its language
WellFormed(x) == \A k \in 1..Len(x.segs) : x.segs[k][2] /= NoLanguage

\* C13: a raw string written as kind:ID"Name"@Lang with further segments
\* "Name_k"@Lang_k is decoded, and the decoded hint has that kind, that ID,
\* one (name, language) pair per segment in the order of the segments, and
\* the name of the first pair as its primary name.
C13_SegmentsInOrder ==
    \A e \in Encoded :
       (WellFormed(e.from) /\ unprocessed_hints = <<e.text>>) =>
          /\ pc /= "crashed"
          /\ pc = "hint_compare" =>
                /\ Len(hints) = 1
                /\ hints[1].fulltext = e.text
                /\ hints[1].database_type = e.from.kind
                /\ hints[1].database_id = e.from.id
                /\ hints[1].name_language_pairs = e.from.segs
                /\ hints[1].primary_name = e.from.segs[1][1]

\* wd:P12"a b"@de / "a"@e has been decoded
C13_Witness ==
    /\ pc = "hint_compare"
    /\ unprocessed_hints =
          <<Encode([kind |-> <<"w", "d">>, id |-> <<"P", "1", "2">>,
                    segs |-> <<<<<<"a", " ", "b">>, <<"d", "e">>>>,
                               <<<<"a">>, <<"e">>>>>>,
                    spaced |-> TRUE])>>
    /\ Len(hints) = 1
    /\ hints[1].name_language_pairs =
          <<<<<<"a", " ", "b">>, <<"d", "e">>>>, <<<<"a">>, <<"e">>>>>>

\* C14: a raw string with a segment written without its language is not
\* decoded: no hint is built from it, so no hint has a pair whose language is
\* missing or empty.
C14_MissingLanguageFails ==
    \A e \in Encoded :
       (~WellFormed(e.from) /\ unprocessed_hints = <<e.text>>) =>
          /\ pc /= "hint_compare"
          /\ hints = <<>>

\* C15: with num_retries >= 1, the first attempt of init_page whose wait
\* succeeds makes init_page return: attempt k (counted from 1) returns after
\* exactly k navigations and k - 1 failures, with the session open and the
\* process running; a failed attempt that is not the last one leaves
\* everything but the loop of init_page as it was and goes on to the next
\* attempt.
C15_ReturnsOnFirstSuccess ==
    /\ []((num_retries >= 1 /\ stage = "loaded" /\ pc = ret) =>
             /\ navs = failed + 1
             /\ navs = attempt + 1
             /\ navs <= num_retries
             /\ ~fatal
             /\ exit_status = -1
             /\ driver = "open"
             /\ closes = 0)
    /\ [][(num_retries >= 1 /\ pc = "init_page" /\ failed' = failed) =>
             /\ pc' = ret
             /\ stage' = "loaded"
             /\ navs' = navs + 1
             /\ UNCHANGED <<attempt, fatal, after, session>>]_vars
    /\ [][(pc = "init_page" /\ failed' /= failed /\ attempt + 1 < num_retries) =>
             /\ pc' = "init_page"
             /\ attempt' = attempt + 1
             /\ failed' = failed + 1
             /\ navs' = navs + 1
             /\ UNCHANGED <<fatal, after, stage, session, reports, results>>]_vars

\* the second attempt of two was the first to succeed, and init_page has
\* returned to test_hints
C15_Witness ==
    /\ num_retries = 2
    /\ stage = "loaded"
    /\ pc = "send_to_textfield"
    /\ navs = 2
    /\ failed = 1
    /\ exit_status = -1

\* C16: a hint test case that has checked all its positions is reported as
\* passed exactly when every position matched; otherwise it is reported as
\* failed, with the number of positions that did not match.
C16_HintStatus ==
    (kind = "hint" /\ tc >= 1 /\ stage = "report" /\ pc = "test_hints") =>
       /\ Len(results) = Len(ExpectedHints)
       /\ \A k \in 1..Len(results) :
             results[k].matched <=> HintMatches(hints[k], ExpectedHints[k])
       /\ status \in {"Passed", "Failed"}
       /\ status = "Passed" <=> \A k \in 1..Len(results) : results[k].matched
       /\ failures = Cardinality({k \in 1..Len(results) : ~results[k].matched})
       /\ failures = Len(hints_not_found)
       /\ Len(hints_found) + Len(hints_not_found) = Len(ExpectedHints)

\* two positions were checked, the first matched and the second did not:
\* reported as failed with one failure
C16_Witness ==
    /\ kind = "hint"
    /\ tc >= 1
    /\ pc = "test_hints"
    /\ stage = "report"
    /\ Len(results) = 2
    /\ results[1].matched
    /\ ~results[2].matched
    /\ status = "Failed"
    /\ failures = 1

\* C17: the session is never closed twice, and a run that has ended (the
\* line done() waits for having been there to read) has closed the session
\* exactly once and left no session open.
C17_SingleTeardown ==
    /\ closes <= 1
    /\ (num_retries >= 1 /\ exit_status /= -1 /\ crashAt /= "done") =>
          (closes = 1 /\ driver = "closed")

\* C18: with num_retries <= 0, init_page navigates nowhere and returns at
\* once, with the session open and the process running, and the steps of the
\* test case follow; init_page gives up, and done() is followed by
\* sys.exit(1), only when num_retries >= 1.
C18_NoRetriesNoLoad ==
    /\ [](num_retries <= 0 => (navs = 0 /\ failed = 0 /\ attempt = 0))
    /\ []((fatal \/ after = 1) => num_retries >= 1)
    /\ [][(num_retries <= 0 /\ pc = "init_page") =>
             /\ pc' = ret
             /\ stage' = "loaded"
             /\ UNCHANGED <<loader, after, session>>]_vars
    /\ [][(num_retries <= 0 /\ stage = "loaded" /\ pc = ret) =>
             pc' \in {"ex_dropdown", "get_hints", "crashed"}]_vars

\* with num_retries = 0 a hint test case has run to its report, and no page
\* was navigated to
C18_Witness ==
    /\ num_retries = 0
    /\ kind = "hint"
    /\ tc = 1
    /\ stage = "report"
    /\ status = "Passed"
    /\ Len(results) = 1
    /\ navs = 0

\* C19: a hint test case never compares more positions than it expects, and
\* the hints shown beyond them change nothing: in particular a test case
\* that expects no hint, once get_hints has returned, is reported as passed
\* without a comparison, whatever get_hints returned.
C19_OnlyExpectedPositionsCount ==
    (num_retries >= 1 /\ kind = "hint" /\ tc >= 1) =>
       /\ Len(results) <= Len(ExpectedHints)
       /\ (ExpectedHints = <<>> /\ stage \in {"collect", "compare", "report"}) =>
             /\ pc /= "crashed"
             /\ results = <<>>
             /\ (pc = "test_hints" => status = "Passed")

\* C20: when init_page gives up, done() first waits for its line of input
\* with the session untouched, then attempts driver.close() once, and then
\* the process exits with status 1, whether or not driver.close() raised;
\* no other status ends this path.
C20_FatalPathOrder ==
    /\ [][(fatal' /\ ~fatal) => (pc' = "done" /\ after' = 1)]_vars
    /\ []((fatal /\ pc \in {"done", "done_close"}) =>
             (closes = 0 /\ driver = "open" /\ exit_status = -1))
    /\ [][(fatal /\ pc = "done") =>
             /\ pc' \in {"done_close", "crashed"}
             /\ UNCHANGED <<driver, closes>>
             /\ (pc' = "done_close" => exit_status' = -1)
             /\ (pc' = "crashed" => exit_status' = 1)]_vars
    /\ [][(fatal /\ pc = "done_close") =>
             /\ closes' = 1
             /\ pc' = "exited"
             /\ exit_status' = 1]_vars
    /\ []((fatal /\ exit_status /= -1) => exit_status = 1)
    /\ []((fatal /\ pc = "exited") => closes = 1)

\* init_page gave up, driver.close() raised, and the process has exited
\* with status 1
C20_Witness ==
    /\ fatal
    /\ pc = "exited"
    /\ closes = 1
    /\ driver = "open"
    /\ exit_status = 1

====
